---- MODULE Spec2Model ----
(***************************************************************************)
(* State-machine model of the LiveAISuggestions React component            *)
(* (src/apps/frontend/components/LiveAISuggestions.tsx).                   *)
(*                                                                         *)
(* The component's useState cells, its wsRef, the maxSuggestions prop and  *)
(* the browser's pending setTimeout queue are the state.  Every transport  *)
(* callback, every click handler and the effect setup / cleanup is one     *)
(* action.  The transport (WebSocketClient) is an external collaborator:   *)
(* it may invoke the four callbacks of the current connection in any       *)
(* order while the component is mounted.                                   *)
(***************************************************************************)
EXTENDS Integers, Sequences, FiniteSets, TLC

VARIABLES
    suggestions,       \* useState<AISuggestion[]>([])
    isConnected,       \* useState(false)
    lastUpdate,        \* useState<string>('')
    currentCall,       \* useState<any>(null)
    isLiveStreaming,   \* useState(false)
    connectionStatus,  \* useState('connecting')
    wsRef,             \* useRef<WebSocketClient | null>(null): id of the client, 0 = null
    maxSuggestions,    \* the maxSuggestions prop (captured by the onMessage closure)
    mounted,           \* whether the component is mounted
    created,           \* number of WebSocketClient instances constructed so far (ids 1..created)
    disconnected,      \* ids of the clients on which disconnect() has been called
    timers,            \* number of pending setTimeout(.., 150) callbacks
    lastEvent,         \* the event handled by the last step
    arrived            \* every item delivered by suggestion batches since the mount, in order

vars == <<suggestions, isConnected, lastUpdate, currentCall, isLiveStreaming,
          connectionStatus, wsRef, maxSuggestions, mounted, created,
          disconnected, timers, lastEvent, arrived>>

\* the useState cells of the component
uiState == <<suggestions, isConnected, lastUpdate, currentCall, isLiveStreaming,
             connectionStatus>>

-----------------------------------------------------------------------------
\* Bounds of the model

MaxCap == 3        \* largest maxSuggestions prop, and longest buffer, explored
MaxBatch == 2      \* longest suggestions payload of one message
MaxConns == 2      \* WebSocketClient instances constructed in one run
MaxTimers == 1     \* simultaneously pending scroll timers
MaxArrived == 4    \* items delivered since the mount in the batches-only runs

\* Program constant: the default of the maxSuggestions prop
DefaultMaxSuggestions == 21

-----------------------------------------------------------------------------
\* Data

Min(a, b) == IF a < b THEN a ELSE b
Max(a, b) == IF a > b THEN a ELSE b

\* AISuggestion records; two of them share offer_id "a" (ids are not unique)
AISuggestion == {[offer_id |-> "a", text |-> "t1"],
                 [offer_id |-> "a", text |-> "t2"],
                 [offer_id |-> "b", text |-> "t1"]}

RECURSIVE SeqsUpTo(_, _)
SeqsUpTo(S, n) ==
    IF n = 0 THEN {<<>>}
    ELSE LET shorter == SeqsUpTo(S, n - 1)
         IN  shorter \cup {Append(q, x) : q \in {r \in shorter : Len(r) = n - 1}, x \in S}

\* the suggestions that the feed of the full model delivers
FeedSuggestions == {s \in AISuggestion : s.text = "t1"}

Batches == SeqsUpTo(FeedSuggestions, MaxBatch)

\* payloads over every AISuggestion record, for the buffer-only runs
RichBatches == SeqsUpTo(AISuggestion, MaxBatch)

MessageTypes == {"suggestions", "instant_suggestions", "call_started",
                 "call_ended", "transcript_chunk", "other"}

\* callData is optional: "undefined" when the message has none
CallDatas == {"undefined", "call1"}

\* WebSocketMessage: hasSuggestions says whether message.suggestions is present
\* (an array, possibly empty, is truthy; an absent field is undefined)
WebSocketMessage ==
    {[type |-> t, hasSuggestions |-> h, suggestions |-> b, callData |-> c] :
        t \in MessageTypes, h \in BOOLEAN, b \in Batches, c \in CallDatas}

\* the messages explored: a payload only when present, callData only on call_started
Messages ==
    {m \in WebSocketMessage :
        /\ ~m.hasSuggestions => m.suggestions = <<>>
        /\ m.type # "call_started" => m.callData = "undefined"}

\* suggestion messages whose payloads range over every AISuggestion record
BufferMessages ==
    {[type |-> t, hasSuggestions |-> TRUE, suggestions |-> b, callData |-> "undefined"] :
        t \in {"suggestions", "instant_suggestions"}, b \in RichBatches}
      \cup {[type |-> "instant_suggestions", hasSuggestions |-> FALSE,
              suggestions |-> <<>>, callData |-> "undefined"]}

Caps == 0..MaxCap

\* an event: its kind, the fields of a message, arg (the offer_id of a click or
\* the connectionStatus a transport callback found) and n (the buffer length a
\* click found)
Event(kind, type, has, callData, arg, n) ==
    [kind |-> kind, type |-> type, has |-> has, callData |-> callData,
     arg |-> arg, n |-> n]

-----------------------------------------------------------------------------
\* Pure functions

\* Array.prototype.slice(start) with one argument
Slice(arr, start) ==
    LET len == Len(arr)
        k == IF start < 0 THEN Max(len + start, 0) ELSE Min(start, len)
    IN  SubSeq(arr, k + 1, len)

\* variant of AppendTrim: keeps the first cap items (slice(0, cap))
AppendTrimKeepsHead(prev, newSuggestions, cap) ==
    SubSeq(prev \o newSuggestions, 1, Min(cap, Len(prev \o newSuggestions)))

\* [...prev, ...newSuggestions].slice(-maxSuggestions)
AppendTrim(prev, newSuggestions, cap) == Slice(prev \o newSuggestions, 0 - cap)

\* message.suggestions || []
Payload(m) == IF m.hasSuggestions THEN m.suggestions ELSE <<>>

\* variant of FilterOut: removes only the first matching entry (findIndex + splice)
FilterOutFirst(prev, id) ==
    LET hits == {i \in 1..Len(prev) : prev[i].offer_id = id}
    IN  IF hits = {} THEN prev
        ELSE LET f == CHOOSE i \in hits : \A j \in hits : i <= j
             IN  SubSeq(prev, 1, f - 1) \o SubSeq(prev, f + 1, Len(prev))

\* prev.filter(s => s.offer_id !== suggestion.offer_id)
FilterOut(prev, id) == SelectSeq(prev, LAMBDA s : s.offer_id # id)

\* the branch of the if / else-if chain of onMessage that a message takes
Dispatch(m) ==
    IF m.type = "suggestions" \/ m.hasSuggestions THEN "suggestions"
    ELSE IF m.type = "instant_suggestions" THEN "instant_suggestions"
    ELSE IF m.type = "call_started" THEN "call_started"
    ELSE IF m.type = "call_ended" THEN "call_ended"
    ELSE IF m.type = "transcript_chunk" THEN "transcript_chunk"
    ELSE "none"

-----------------------------------------------------------------------------
\* Effect setup and cleanup

\* new WebSocketClient(); wsRef.current = wsClient; handlers assigned
Setup ==
    /\ created < MaxConns
    /\ created' = created + 1
    /\ wsRef' = created + 1

\* variant of Cleanup: disconnects only a feed that reported connected
CleanupIfConnected ==
    disconnected' = IF wsRef # 0 /\ isConnected THEN disconnected \cup {wsRef}
                    ELSE disconnected

\* wsRef.current?.disconnect()
Cleanup ==
    disconnected' = IF wsRef = 0 THEN disconnected ELSE disconnected \cup {wsRef}

\* the transport invokes handlers of the current client while the component is mounted
Live == mounted /\ wsRef # 0 /\ wsRef \notin disconnected

-----------------------------------------------------------------------------
\* Transport callbacks

OnConnect ==
    /\ Live
    /\ isConnected' = TRUE
    /\ connectionStatus' = "connected"
    /\ UNCHANGED <<suggestions, lastUpdate, currentCall, isLiveStreaming, wsRef,
                   maxSuggestions, mounted, created, disconnected, timers>>

\* variant of OnDisconnect: forgets setIsConnected(false)
OnDisconnectKeepsFlag ==
    /\ mounted /\ wsRef # 0 /\ wsRef \notin disconnected
    /\ connectionStatus' = "disconnected"
    /\ UNCHANGED <<suggestions, isConnected, lastUpdate, currentCall,
                   isLiveStreaming, wsRef, maxSuggestions, mounted, created,
                   disconnected, timers>>

OnDisconnect ==
    /\ Live
    /\ isConnected' = FALSE
    /\ connectionStatus' = "disconnected"
    /\ UNCHANGED <<suggestions, lastUpdate, currentCall, isLiveStreaming, wsRef,
                   maxSuggestions, mounted, created, disconnected, timers>>

OnError ==
    /\ Live
    /\ connectionStatus' = "error"
    /\ UNCHANGED <<suggestions, isConnected, lastUpdate, currentCall,
                   isLiveStreaming, wsRef, maxSuggestions, mounted, created,
                   disconnected, timers>>

\* first branch: message.type === 'suggestions' || message.suggestions
OnMessageSuggestions(m) ==
    /\ Live
    /\ Dispatch(m) = "suggestions"
    /\ timers < MaxTimers
    /\ suggestions' = AppendTrim(suggestions, Payload(m), maxSuggestions)
    /\ Len(suggestions') <= MaxCap
    /\ lastUpdate' = "ts"
    /\ timers' = timers + 1
    /\ UNCHANGED <<isConnected, currentCall, isLiveStreaming, connectionStatus,
                   wsRef, maxSuggestions, mounted, created, disconnected>>

\* second branch: message.type === 'instant_suggestions'
OnMessageInstant(m) ==
    /\ Live
    /\ Dispatch(m) = "instant_suggestions"
    /\ timers < MaxTimers
    /\ suggestions' = AppendTrim(suggestions, Payload(m), maxSuggestions)
    /\ Len(suggestions') <= MaxCap
    /\ lastUpdate' = "ts"
    /\ timers' = timers + 1
    /\ UNCHANGED <<isConnected, currentCall, isLiveStreaming, connectionStatus,
                   wsRef, maxSuggestions, mounted, created, disconnected>>

OnMessageCallStarted(m) ==
    /\ Live
    /\ Dispatch(m) = "call_started"
    /\ currentCall' = m.callData
    /\ isLiveStreaming' = TRUE
    /\ UNCHANGED <<suggestions, isConnected, lastUpdate, connectionStatus, wsRef,
                   maxSuggestions, mounted, created, disconnected, timers>>

\* variant of OnMessageCallEnded: forgets setCurrentCall(null)
OnMessageCallEndedKeepsCall(m) ==
    /\ Live
    /\ Dispatch(m) = "call_ended"
    /\ isLiveStreaming' = FALSE
    /\ UNCHANGED <<suggestions, isConnected, lastUpdate, currentCall,
                   connectionStatus, wsRef, maxSuggestions, mounted, created,
                   disconnected, timers>>

OnMessageCallEnded(m) ==
    /\ Live
    /\ Dispatch(m) = "call_ended"
    /\ currentCall' = "null"
    /\ isLiveStreaming' = FALSE
    /\ UNCHANGED <<suggestions, isConnected, lastUpdate, connectionStatus, wsRef,
                   maxSuggestions, mounted, created, disconnected, timers>>

\* variant of OnMessageIgnored: stamps the last-update marker
OnMessageIgnoredStamps(m) ==
    /\ Live
    /\ Dispatch(m) \in {"transcript_chunk", "none"}
    /\ lastUpdate' = "ts"
    /\ UNCHANGED <<suggestions, isConnected, currentCall, isLiveStreaming,
                   connectionStatus, wsRef, maxSuggestions, mounted, created,
                   disconnected, timers>>

\* transcript_chunk only logs; any other type matches no branch
OnMessageIgnored(m) ==
    /\ Live
    /\ Dispatch(m) \in {"transcript_chunk", "none"}
    /\ UNCHANGED <<suggestions, isConnected, lastUpdate, currentCall,
                   isLiveStreaming, connectionStatus, wsRef, maxSuggestions,
                   mounted, created, disconnected, timers>>

OnMessage(m) ==
    \/ OnMessageSuggestions(m)
    \/ OnMessageInstant(m)
    \/ OnMessageCallStarted(m)
    \/ OnMessageCallEnded(m)
    \/ OnMessageIgnored(m)

\* the setTimeout callback: scrolls if scrollRef.current is set, touches no state
ScrollTimer ==
    /\ timers > 0
    /\ timers' = timers - 1
    /\ UNCHANGED <<suggestions, isConnected, lastUpdate, currentCall,
                   isLiveStreaming, connectionStatus, wsRef, maxSuggestions,
                   mounted, created, disconnected>>

-----------------------------------------------------------------------------
\* User actions (buttons are rendered per buffer entry / when the buffer is non-empty)

\* handleSuggestionAction(suggestion, 'use')
UseSuggestion(s) ==
    /\ mounted
    /\ \E i \in 1..Len(suggestions) : suggestions[i] = s
    /\ UNCHANGED <<suggestions, isConnected, lastUpdate, currentCall,
                   isLiveStreaming, connectionStatus, wsRef, maxSuggestions,
                   mounted, created, disconnected, timers>>

\* handleSuggestionAction(suggestion, 'dismiss')
DismissSuggestion(s) ==
    /\ mounted
    /\ \E i \in 1..Len(suggestions) : suggestions[i] = s
    /\ suggestions' = FilterOut(suggestions, s.offer_id)
    /\ UNCHANGED <<isConnected, lastUpdate, currentCall, isLiveStreaming,
                   connectionStatus, wsRef, maxSuggestions, mounted, created,
                   disconnected, timers>>

\* variant of clearAllSuggestions: forgets setLastUpdate('')
clearAllKeepsMarker ==
    /\ mounted
    /\ Len(suggestions) > 0
    /\ suggestions' = <<>>
    /\ UNCHANGED <<isConnected, lastUpdate, currentCall, isLiveStreaming,
                   connectionStatus, wsRef, maxSuggestions, mounted, created,
                   disconnected, timers>>

clearAllSuggestions ==
    /\ mounted
    /\ Len(suggestions) > 0
    /\ suggestions' = <<>>
    /\ lastUpdate' = ""
    /\ UNCHANGED <<isConnected, currentCall, isLiveStreaming, connectionStatus,
                   wsRef, maxSuggestions, mounted, created, disconnected, timers>>

-----------------------------------------------------------------------------
\* Component lifecycle

\* variant of ChangeAgentOrCall: the new effect resets the status to connecting
ChangeAgentOrCallResetsStatus ==
    /\ mounted
    /\ Cleanup
    /\ Setup
    /\ connectionStatus' = "connecting"
    /\ UNCHANGED <<suggestions, isConnected, lastUpdate, currentCall,
                   isLiveStreaming, maxSuggestions, mounted, timers>>

\* agentId or callSid changes: the effect is cleaned up and run again
ChangeAgentOrCall ==
    /\ mounted
    /\ Cleanup
    /\ Setup
    /\ UNCHANGED <<suggestions, isConnected, lastUpdate, currentCall,
                   isLiveStreaming, connectionStatus, maxSuggestions, mounted,
                   timers>>

\* the parent passes another maxSuggestions: cleanup, then setup with the new cap
ChangeMaxSuggestions(n) ==
    /\ mounted
    /\ n # maxSuggestions
    /\ maxSuggestions' = n
    /\ Cleanup
    /\ Setup
    /\ UNCHANGED <<suggestions, isConnected, lastUpdate, currentCall,
                   isLiveStreaming, connectionStatus, mounted, timers>>

\* variant of Unmount: the cleanup also clears the pending scroll timers
UnmountCancelsTimers ==
    /\ mounted
    /\ mounted' = FALSE
    /\ Cleanup
    /\ suggestions' = <<>>
    /\ isConnected' = FALSE
    /\ lastUpdate' = ""
    /\ currentCall' = "null"
    /\ isLiveStreaming' = FALSE
    /\ connectionStatus' = "connecting"
    /\ wsRef' = 0
    /\ timers' = 0
    /\ UNCHANGED <<maxSuggestions, created>>

\* unmount runs the cleanup of the effect; React then discards the component's
\* state cells and refs (they read as their initial values until the next mount)
Unmount ==
    /\ mounted
    /\ mounted' = FALSE
    /\ Cleanup
    /\ suggestions' = <<>>
    /\ isConnected' = FALSE
    /\ lastUpdate' = ""
    /\ currentCall' = "null"
    /\ isLiveStreaming' = FALSE
    /\ connectionStatus' = "connecting"
    /\ wsRef' = 0
    /\ UNCHANGED <<maxSuggestions, created, timers>>

\* a fresh mount: useState initial values, then the effect
Mount(n) ==
    /\ ~mounted
    /\ mounted' = TRUE
    /\ maxSuggestions' = n
    /\ suggestions' = <<>>
    /\ isConnected' = FALSE
    /\ lastUpdate' = ""
    /\ currentCall' = "null"
    /\ isLiveStreaming' = FALSE
    /\ connectionStatus' = "connecting"
    /\ Setup
    /\ UNCHANGED <<disconnected, timers>>

-----------------------------------------------------------------------------
\* Specifications

InitWith(caps) ==
    /\ suggestions = <<>>
    /\ isConnected = FALSE
    /\ lastUpdate = ""
    /\ currentCall = "null"
    /\ isLiveStreaming = FALSE
    /\ connectionStatus = "connecting"
    /\ wsRef = 1
    /\ maxSuggestions \in caps
    /\ mounted = TRUE
    /\ created = 1
    /\ disconnected = {}
    /\ timers = 0
    /\ lastEvent = Event("mount", "-", FALSE, "-", "-", 0)
    /\ arrived = <<>>

Init == InitWith(Caps)

EvConnect ==
    OnConnect /\ lastEvent' = Event("connect", "-", FALSE, "-", connectionStatus, 0)
              /\ UNCHANGED arrived
EvDisconnect ==
    OnDisconnect /\ lastEvent' = Event("disconnect", "-", FALSE, "-", connectionStatus, 0)
                 /\ UNCHANGED arrived
EvError ==
    OnError /\ lastEvent' = Event("error", "-", FALSE, "-", connectionStatus, 0)
            /\ UNCHANGED arrived
EvMessage ==
    \E m \in Messages :
        /\ OnMessage(m)
        /\ lastEvent' = Event("message", m.type, m.hasSuggestions, m.callData, "-", 0)
        /\ UNCHANGED arrived
EvTimer ==
    ScrollTimer /\ lastEvent' = Event("timer", "-", FALSE, "-", "-", 0)
                /\ UNCHANGED arrived
EvUse ==
    \E s \in AISuggestion :
        /\ UseSuggestion(s)
        /\ lastEvent' = Event("use", "-", FALSE, "-", s.offer_id, 0)
        /\ UNCHANGED arrived
EvDismiss ==
    \E s \in AISuggestion :
        /\ DismissSuggestion(s)
        /\ lastEvent' = Event("dismiss", "-", FALSE, "-", s.offer_id, Len(suggestions))
        /\ UNCHANGED arrived
EvClear ==
    clearAllSuggestions /\ lastEvent' = Event("clear", "-", FALSE, "-", "-", Len(suggestions))
                        /\ UNCHANGED arrived
EvChangeAgentOrCall ==
    ChangeAgentOrCall /\ lastEvent' = Event("resubscribe", "-", FALSE, "-", "-", 0)
                      /\ UNCHANGED arrived
EvChangeMaxSuggestions ==
    \E n \in Caps :
        /\ ChangeMaxSuggestions(n)
        /\ lastEvent' = Event("resubscribe", "-", FALSE, "-", "-", 0)
        /\ UNCHANGED arrived
EvUnmount ==
    Unmount /\ lastEvent' = Event("unmount", "-", FALSE, "-", "-", 0)
            /\ UNCHANGED arrived
EvMount ==
    \E n \in Caps :
        /\ Mount(n)
        /\ lastEvent' = Event("mount", "-", FALSE, "-", "-", 0)
        /\ UNCHANGED arrived

Next ==
    \/ EvConnect
    \/ EvDisconnect
    \/ EvError
    \/ EvMessage
    \/ EvTimer
    \/ EvUse
    \/ EvDismiss
    \/ EvClear
    \/ EvChangeAgentOrCall
    \/ EvChangeMaxSuggestions
    \/ EvUnmount
    \/ EvMount

Spec == Init /\ [][Next]_vars

-----------------------------------------------------------------------------
\* Batches-only runs: a fixed cap >= 1, a fresh mount, and nothing but inbound
\* suggestion batches (both suggestion branches), their scroll timers and
\* re-subscriptions that keep the cap; arrived records the concatenation.

InitBatches == InitWith(1..MaxCap)

BaSuggestions ==
    \E m \in Messages \cup BufferMessages :
        /\ OnMessageSuggestions(m)
        /\ Len(arrived) + Len(Payload(m)) <= MaxArrived
        /\ arrived' = arrived \o Payload(m)
        /\ lastEvent' = Event("message", m.type, m.hasSuggestions, m.callData, "-", 0)
BaInstant ==
    \E m \in Messages \cup BufferMessages :
        /\ OnMessageInstant(m)
        /\ Len(arrived) + Len(Payload(m)) <= MaxArrived
        /\ arrived' = arrived \o Payload(m)
        /\ lastEvent' = Event("message", m.type, m.hasSuggestions, m.callData, "-", 0)

NextBatches ==
    \/ BaSuggestions
    \/ BaInstant
    \/ EvTimer
    \/ EvChangeAgentOrCall

SpecBatches == InitBatches /\ [][NextBatches]_vars

-----------------------------------------------------------------------------
\* Buffer-only runs: a fresh mount with any cap, kept for the run; suggestion
\* messages whose payloads range over every AISuggestion record (entries that
\* share an offer_id stay distinguishable), and the three buttons.

BuSuggestions ==
    \E m \in BufferMessages :
        /\ OnMessageSuggestions(m)
        /\ lastEvent' = Event("message", m.type, m.hasSuggestions, m.callData, "-", 0)
        /\ UNCHANGED arrived
BuInstant ==
    \E m \in BufferMessages :
        /\ OnMessageInstant(m)
        /\ lastEvent' = Event("message", m.type, m.hasSuggestions, m.callData, "-", 0)
        /\ UNCHANGED arrived

NextBuffer ==
    \/ BuSuggestions
    \/ BuInstant
    \/ EvTimer
    \/ EvUse
    \/ EvDismiss
    \/ EvClear

SpecBuffer == Init /\ [][NextBuffer]_vars

-----------------------------------------------------------------------------
\* Properties

\* the last Min(n, Len(seq)) elements of seq, in order
LastN(seq, n) ==
    LET k == Min(n, Len(seq))
    IN  [i \in 1..k |-> seq[Len(seq) - k + i]]

\* C1: with a fixed cap N >= 1 and only suggestion batches since the fresh mount,
\* the buffer has at most N entries and is exactly the last min(N, total) items
\* of the concatenation of all batches in arrival order; with N = 21 one batch
\* s1..s25 leaves s5..s25.
C1_RollingWindow ==
    /\ maxSuggestions >= 1
    /\ Len(suggestions) <= maxSuggestions
    /\ Len(suggestions) = Min(maxSuggestions, Len(arrived))
    /\ suggestions = LastN(arrived, maxSuggestions)
    /\ AppendTrim(<<>>, [i \in 1..25 |-> i], DefaultMaxSuggestions)
           = [i \in 1..21 |-> i + 4]

\* C1 witness: more items arrived than the cap holds, the oldest were evicted
C1_Witness ==
    /\ maxSuggestions = 2
    /\ Len(arrived) = 4
    /\ arrived[1] # arrived[3]
    /\ suggestions = <<arrived[3], arrived[4]>>
    /\ lastEvent.type = "instant_suggestions"

\* C2 (as claimed): while mounted the buffer is never longer than the configured cap
C2_BufferWithinCap == mounted => Len(suggestions) <= maxSuggestions

AllowedTransitions ==
    {<<"connecting", "connected">>, <<"connecting", "error">>,
     <<"connected", "disconnected">>}
        \cup {<<x, "error">> : x \in {"connecting", "connected", "disconnected"}}

\* C3 (as claimed): every change of connectionStatus of the mounted component is
\* connecting->connected, connecting->error, connected->disconnected or X->error
C3_OnlyListedTransitions ==
    [][(mounted /\ mounted' /\ connectionStatus' # connectionStatus)
          => <<connectionStatus, connectionStatus'>> \in AllowedTransitions]_vars

\* C3 (amended): connectionStatus starts at 'connecting'; while mounted every
\* change of it is made by a transport callback and leads to the status that
\* callback reports (onConnect: connected, onDisconnect: disconnected, onError:
\* error) from any prior status; it never returns to 'connecting' and a
\* re-subscription leaves it alone.
C3_CallbackDecidesStatus ==
    /\ connectionStatus = "connecting"
    /\ [][/\ lastEvent'.kind = "mount" => connectionStatus' = "connecting"
          /\ (mounted /\ mounted' /\ connectionStatus' # connectionStatus) =>
                \/ lastEvent'.kind = "connect" /\ connectionStatus' = "connected"
                \/ lastEvent'.kind = "disconnect" /\ connectionStatus' = "disconnected"
                \/ lastEvent'.kind = "error" /\ connectionStatus' = "error"
          /\ lastEvent'.kind = "connect" => connectionStatus' = "connected"
          /\ lastEvent'.kind = "disconnect" => connectionStatus' = "disconnected"
          /\ lastEvent'.kind = "error" => connectionStatus' = "error"]_vars

\* C3 witness: onConnect arrived in status error (error -> connected)
C3_Witness ==
    /\ mounted
    /\ lastEvent.kind = "connect"
    /\ lastEvent.arg = "error"
    /\ connectionStatus = "connected"

IsSuggestionBranch(ev) ==
    ev.has \/ ev.type \in {"suggestions", "instant_suggestions"}

\* C4 (as claimed): every call_started message sets live and stores its callData,
\* every call_ended message clears both, suggestion messages change neither
C4_EveryCallMessage ==
    [][lastEvent'.kind = "message" =>
          /\ lastEvent'.type = "call_started" =>
                isLiveStreaming' = TRUE /\ currentCall' = lastEvent'.callData
          /\ lastEvent'.type = "call_ended" =>
                isLiveStreaming' = FALSE /\ currentCall' = "null"
          /\ lastEvent'.type \in {"suggestions", "instant_suggestions"} =>
                UNCHANGED <<isLiveStreaming, currentCall>>]_vars

\* C4 (amended): a call_started message that carries no suggestions payload sets
\* live and stores its callData; a call_ended message that carries no suggestions
\* payload clears both; every message that carries a suggestions payload or has
\* type suggestions / instant_suggestions changes neither.
C4_CallMessageWithoutPayload ==
    [][lastEvent'.kind = "message" =>
          /\ (lastEvent'.type = "call_started" /\ ~lastEvent'.has) =>
                isLiveStreaming' = TRUE /\ currentCall' = lastEvent'.callData
          /\ (lastEvent'.type = "call_ended" /\ ~lastEvent'.has) =>
                isLiveStreaming' = FALSE /\ currentCall' = "null"
          /\ IsSuggestionBranch(lastEvent') =>
                UNCHANGED <<isLiveStreaming, currentCall>>]_vars

\* C4 witness: a call_ended without payload was handled while suggestions that
\* arrived during the call are still in the buffer
C4_Witness ==
    /\ lastEvent.kind = "message"
    /\ lastEvent.type = "call_ended"
    /\ ~lastEvent.has
    /\ ~isLiveStreaming
    /\ currentCall = "null"
    /\ suggestions # <<>>

\* indices of prev whose entry survives a dismiss of id
KeptIdx(prev, id) == {i \in 1..Len(prev) : prev[i].offer_id # id}

\* the k-th smallest element of a set of indices
NthOf(idx, k) == CHOOSE i \in idx : Cardinality({j \in idx : j <= i}) = k

\* C5: a dismiss of offer_id X leaves exactly the entries whose offer_id is not X,
\* in their prior relative order; the length drops by the number of X-entries.
C5_DismissRemovesAllMatching ==
    [][lastEvent'.kind = "dismiss" =>
          LET X == lastEvent'.arg
              keep == KeptIdx(suggestions, X)
              gone == {i \in 1..Len(suggestions) : suggestions[i].offer_id = X}
          IN  /\ \A k \in 1..Len(suggestions') : suggestions'[k].offer_id # X
              /\ Len(suggestions') = Len(suggestions) - Cardinality(gone)
              /\ \A k \in 1..Len(suggestions') :
                    suggestions'[k] = suggestions[NthOf(keep, k)]]_vars

\* C5 witness: the buffer held three entries, two of them with offer_id a; the
\* dismiss of a left the single b entry
C5_Witness ==
    /\ lastEvent.kind = "dismiss"
    /\ lastEvent.arg = "a"
    /\ lastEvent.n = 3
    /\ maxSuggestions = 3
    /\ suggestions = <<[offer_id |-> "b", text |-> "t1"]>>

Unreleased == (1..created) \ disconnected

\* C6: each mount / re-subscription constructs exactly one client, each teardown
\* calls disconnect() on the client of the cycle it ends before a replacement is
\* constructed; at most one client is un-released, none after unmount.
C6_ScopedConnection ==
    /\ [](/\ Cardinality(Unreleased) <= 1
          /\ mounted => Unreleased = {wsRef}
          /\ ~mounted => Unreleased = {})
    /\ [][/\ lastEvent'.kind \in {"mount", "resubscribe"} =>
                created' = created + 1 /\ wsRef' = created'
          /\ lastEvent'.kind \notin {"mount", "resubscribe"} => created' = created
          /\ lastEvent'.kind \in {"unmount", "resubscribe"} =>
                disconnected' = disconnected \cup {wsRef}
          /\ lastEvent'.kind \notin {"unmount", "resubscribe"} =>
                disconnected' = disconnected]_vars

\* C6 witness: a re-subscription replaced the first client and the component
\* then unmounted: both clients are released
C6_Witness ==
    /\ ~mounted
    /\ created = 2
    /\ disconnected = {1, 2}

\* C7: clear-all empties the buffer and the last-update marker and leaves
\* connectionStatus, isConnected, the live flag and the call context alone.
C7_ClearAll ==
    [][lastEvent'.kind = "clear" =>
          /\ suggestions' = <<>>
          /\ lastUpdate' = ""
          /\ UNCHANGED <<connectionStatus, isConnected, isLiveStreaming,
                         currentCall>>]_vars

\* C7 witness: a full buffer was cleared during a live call on a connected feed
C7_Witness ==
    /\ lastEvent.kind = "clear"
    /\ lastEvent.n = MaxCap
    /\ suggestions = <<>>
    /\ lastUpdate = ""
    /\ isLiveStreaming
    /\ isConnected
    /\ connectionStatus = "connected"

\* C8: a message without suggestions payload whose type is transcript_chunk or
\* is none of suggestions, instant_suggestions, call_started, call_ended changes
\* no state cell of the component.
C8_IgnoredMessage ==
    [][(/\ lastEvent'.kind = "message"
        /\ ~lastEvent'.has
        /\ lastEvent'.type \in {"transcript_chunk", "other"})
          => UNCHANGED uiState]_vars

\* C8 witness: a transcript_chunk was handled with a non-empty buffer, a marker,
\* a live call and a connected feed
C8_Witness ==
    /\ lastEvent.kind = "message"
    /\ lastEvent.type = "transcript_chunk"
    /\ ~lastEvent.has
    /\ suggestions # <<>>
    /\ lastUpdate = "ts"
    /\ isLiveStreaming
    /\ connectionStatus = "connected"

\* C9: a pending scroll timer is removed only by firing: every other step, the
\* teardown by unmount or re-subscription included, keeps every pending timer.
C9_TimerNeverCancelled ==
    [][/\ lastEvent'.kind # "timer" => timers' >= timers
       /\ lastEvent'.kind \in {"unmount", "resubscribe"} => timers' = timers]_vars

\* C9 witness: a timer fired while the component is unmounted and every client,
\* the one whose handler scheduled it included, has been disconnected
C9_Witness ==
    /\ lastEvent.kind = "timer"
    /\ ~mounted
    /\ \A c \in 1..created : c \in disconnected

\* C10: connected implies isConnected, connecting and disconnected imply
\* ~isConnected; only in status error may isConnected have either value.
C10_FlagAgreesWithStatus ==
    /\ connectionStatus = "connected" => isConnected = TRUE
    /\ connectionStatus \in {"connecting", "disconnected"} => isConnected = FALSE

\* C10 witness: an error reported on a connected feed leaves isConnected true
C10_Witness ==
    /\ mounted
    /\ lastEvent.kind = "error"
    /\ connectionStatus = "error"
    /\ isConnected = TRUE

====
